---- MODULE Spec2Model ----
(***************************************************************************)
(* Exporter service helper (src/service.py, src/config.py) of the          *)
(* hardware-observer operator: the template helper that renders and writes *)
(* the exporter's config file and service-unit file, and the               *)
(* HardwareExporter lifecycle manager (install, uninstall, and the         *)
(* check_installed-gated start/stop/restart/enable/disable/check_active/   *)
(* check_health).                                                          *)
(*                                                                         *)
(* The filesystem and systemd are the environment.  A file-level write or  *)
(* removal has an outcome the environment chooses; the outcome is an input *)
(* of the call.  Every call is one atomic step (the code is synchronous    *)
(* and single-threaded); the step records the call's name, what it         *)
(* returned (or the exception it ended with) and the ordered list of file  *)
(* and service-manager operations it performed.                            *)
(***************************************************************************)
EXTENDS Naturals, Sequences, FiniteSets, TLC

VARIABLES
    config_exists,    \* Path(HARDWARE_EXPORTER_CONFIG_PATH).exists()
    config_content,   \* COLLECTORS rendered into the config file (<<>> when absent)
    service_exists,   \* Path(HARDWARE_EXPORTER_SERVICE_PATH).exists()
    unit_stale,       \* unit file written or deleted since the last systemd.daemon_reload()
    hw_tools,         \* what get_hw_tool_white_list() returns on this host
    running,          \* systemd: the unit is running
    enabled,          \* systemd: the unit is enabled
    failed,           \* systemd: the unit is in failed state
    last_call,        \* name of the most recent call (or environment event)
    last_result,      \* what it returned: "True", "False", "None", or the exception raised
    calls             \* file and systemd operations performed by the most recent call

fs == <<config_exists, config_content, service_exists>>
sm == <<running, enabled, failed>>
vars == <<config_exists, config_content, service_exists, unit_stale, hw_tools, running, enabled, failed, last_call, last_result, calls>>

----------------------------------------------------------------------------
(* Bounds *)

\* longest tool whitelist enumerated
MaxWhitelist == 3

----------------------------------------------------------------------------
(* config.py *)

HWTool == {"storcli", "ssacli", "sas2ircu", "sas3ircu", "perccli", "ipmi_dcmi", "ipmi_sel", "ipmi_sensor", "redfish"}

HARDWARE_EXPORTER_COLLECTOR_MAPPING ==
    [tool \in HWTool |->
        CASE tool = "storcli"     -> <<"collector.mega_raid">>
          [] tool = "perccli"     -> <<"collector.poweredge_raid">>
          [] tool = "sas2ircu"    -> <<"collector.lsi_sas_2">>
          [] tool = "sas3ircu"    -> <<"collector.lsi_sas_3">>
          [] tool = "ssacli"      -> <<"collector.hpe_ssa">>
          [] tool = "ipmi_dcmi"   -> <<"collector.ipmi_dcmi">>
          [] tool = "ipmi_sel"    -> <<"collector.ipmi_sel">>
          [] tool = "ipmi_sensor" -> <<"collector.ipmi_sensor">>
          [] tool = "redfish"     -> <<"collector.redfish">>]

\* A tool identifier that is no key of the mapping.
UnmappedTool == "unmapped_tool"

ToolIds == HWTool \cup {UnmappedTool}

\* Every whitelist of at most MaxWhitelist identifiers, duplicates allowed.
Whitelists == UNION {[1..n -> ToolIds] : n \in 0..MaxWhitelist}

\* The whitelist of the lifecycle specification's host.
HostWhitelist == <<"storcli">>

----------------------------------------------------------------------------
(* Outcomes the filesystem can give a file-level operation *)

\* open(path, "w") + write: done, or the OSError subclass raised.
WriteOutcomes == {"ok", "FileNotFoundError", "NotADirectoryError", "PermissionError"}

\* A file that exists has its directory; only a permission error can stop
\* the overwrite.  An absent file can also miss its directory
\* (FileNotFoundError) or sit under a non-directory (NotADirectoryError).
PossibleWrites(exists) == IF exists THEN {"ok", "PermissionError"} ELSE WriteOutcomes

\* The config path is /etc/<name>-config.yaml and the unit path is
\* /etc/systemd/system/<name>.service: when /etc itself is missing or is
\* not a directory, the unit path fails the same way.
PathsAgree(oc, os) == oc \in {"FileNotFoundError", "NotADirectoryError"} => os = oc

\* path.unlink() of an existing file: done, or PermissionError.
RemoveOutcomes == {"ok", "PermissionError"}

\* One operation performed by a call: a file operation with its outcome, or
\* a systemd operation.
FileOp(op, path, outcome) == [op |-> op, path |-> path, outcome |-> outcome]
SystemdOp(op) == [op |-> op, path |-> "systemd", outcome |-> "ok"]

PyBool(b) == IF b THEN "True" ELSE "False"

----------------------------------------------------------------------------
(* ExporterTemplate: file-level install and uninstall *)

\* _install(path, content): the exceptions the except clause names are
\* turned into success = False; any other exception propagates.
_install(exists, outcome) ==
    IF outcome = "ok" THEN [raised |-> FALSE, success |-> TRUE, exists |-> TRUE, written |-> TRUE]
    ELSE IF outcome \in {"NotADirectoryError", "PermissionError"} THEN [raised |-> FALSE, success |-> FALSE, exists |-> exists, written |-> FALSE]
    ELSE [raised |-> TRUE, success |-> FALSE, exists |-> exists, written |-> FALSE]

\* Mutant of _uninstall: no path.exists() test, an absent path is a failure.
_uninstall_absent_fails(exists, outcome) ==
    IF ~exists THEN [success |-> FALSE, exists |-> FALSE, unlinked |-> FALSE, ops |-> <<>>]
    ELSE IF outcome = "ok" THEN [success |-> TRUE, exists |-> FALSE, unlinked |-> TRUE, ops |-> <<outcome>>]
    ELSE [success |-> FALSE, exists |-> TRUE, unlinked |-> FALSE, ops |-> <<outcome>>]

\* _uninstall(path): unlink only when path.exists(); PermissionError is
\* turned into success = False.
_uninstall(exists, outcome) ==
    IF ~exists THEN [success |-> TRUE, exists |-> FALSE, unlinked |-> FALSE, ops |-> <<>>]
    ELSE IF outcome = "ok" THEN [success |-> TRUE, exists |-> FALSE, unlinked |-> TRUE, ops |-> <<outcome>>]
    ELSE [success |-> FALSE, exists |-> TRUE, unlinked |-> FALSE, ops |-> <<outcome>>]

\* Mutant of collectors: collectors = collector + collectors (prepends).
RECURSIVE collectors_prepended(_)
collectors_prepended(tools) ==
    IF tools = <<>> THEN <<>>
    ELSE LET tool == tools[Len(tools)]
             before == collectors_prepended(SubSeq(tools, 1, Len(tools) - 1))
         IN IF tool \in DOMAIN HARDWARE_EXPORTER_COLLECTOR_MAPPING
            THEN HARDWARE_EXPORTER_COLLECTOR_MAPPING[tool] \o before
            ELSE before

\* The loop of render_config: collectors += MAPPING.get(tool) for every
\* tool of the whitelist whose lookup is not None, in iteration order.
RECURSIVE collectors(_)
collectors(tools) ==
    IF tools = <<>> THEN <<>>
    ELSE LET tool == tools[Len(tools)]
             before == collectors(SubSeq(tools, 1, Len(tools) - 1))
         IN IF tool \in DOMAIN HARDWARE_EXPORTER_COLLECTOR_MAPPING
            THEN before \o HARDWARE_EXPORTER_COLLECTOR_MAPPING[tool]
            ELSE before

\* render_config: render the config template with COLLECTORS and write it
\* to the config path.
render_config(exists, content, tools, outcome) ==
    LET w == _install(exists, outcome)
    IN [raised |-> w.raised, success |-> w.success, exists |-> w.exists,
        content |-> IF w.written THEN collectors(tools) ELSE content,
        ops |-> <<FileOp("write", "config", outcome)>>]

\* render_service: render the unit template and write it to the unit path.
render_service(exists, outcome) ==
    LET w == _install(exists, outcome)
    IN [raised |-> w.raised, success |-> w.success, exists |-> w.exists, written |-> w.written,
        ops |-> <<FileOp("write", "service", outcome)>>]

\* remove_config, remove_service
remove_config(exists, outcome) ==
    LET r == _uninstall(exists, outcome)
    IN [success |-> r.success, exists |-> r.exists, unlinked |-> r.unlinked,
        ops |-> [i \in DOMAIN r.ops |-> FileOp("unlink", "config", r.ops[i])]]

remove_service(exists, outcome) ==
    LET r == _uninstall(exists, outcome)
    IN [success |-> r.success, exists |-> r.exists, unlinked |-> r.unlinked,
        ops |-> [i \in DOMAIN r.ops |-> FileOp("unlink", "service", r.ops[i])]]

----------------------------------------------------------------------------
(* HardwareExporter.install and Exporter.uninstall, as functions of the    *)
(* state before the call and the outcomes of the file operations           *)

\* Mutant of install_run: returns after render_service without the reload.
install_run_no_reload(cfg, content, svc, stale, tools, oc, os) ==
    LET c == render_config(cfg, content, tools, oc)
        s == render_service(svc, os)
        success == s.success
    IN IF c.raised
       THEN [config_exists |-> c.exists, config_content |-> c.content, service_exists |-> svc, unit_stale |-> stale, result |-> oc, calls |-> c.ops]
       ELSE IF s.raised
       THEN [config_exists |-> c.exists, config_content |-> c.content, service_exists |-> s.exists, unit_stale |-> stale, result |-> os, calls |-> c.ops \o s.ops]
       ELSE [config_exists |-> c.exists, config_content |-> c.content, service_exists |-> s.exists, unit_stale |-> (stale \/ s.written), result |-> PyBool(success), calls |-> c.ops \o s.ops]

\* install: success is assigned from render_config and then assigned again
\* from render_service; the reload is issued when the last value is True.
install_run(cfg, content, svc, stale, tools, oc, os) ==
    LET c == render_config(cfg, content, tools, oc)
        s == render_service(svc, os)
        success == s.success
    IN IF c.raised
       THEN [config_exists |-> c.exists, config_content |-> c.content, service_exists |-> svc, unit_stale |-> stale, result |-> oc, calls |-> c.ops]
       ELSE IF s.raised
       THEN [config_exists |-> c.exists, config_content |-> c.content, service_exists |-> s.exists, unit_stale |-> stale, result |-> os, calls |-> c.ops \o s.ops]
       ELSE IF ~success
       THEN [config_exists |-> c.exists, config_content |-> c.content, service_exists |-> s.exists, unit_stale |-> (stale \/ s.written), result |-> PyBool(success), calls |-> c.ops \o s.ops]
       ELSE [config_exists |-> c.exists, config_content |-> c.content, service_exists |-> s.exists, unit_stale |-> FALSE, result |-> PyBool(success), calls |-> c.ops \o s.ops \o <<SystemdOp("daemon_reload")>>]

\* uninstall: success is assigned from remove_config and then assigned
\* again from remove_service; the reload is issued when the last value is
\* True.
uninstall_run(cfg, content, svc, stale, rc, rs) ==
    LET c == remove_config(cfg, rc)
        s == remove_service(svc, rs)
        success == s.success
        left == IF c.exists THEN content ELSE <<>>
    IN IF ~success
       THEN [config_exists |-> c.exists, config_content |-> left, service_exists |-> s.exists, unit_stale |-> (stale \/ s.unlinked), result |-> PyBool(success), calls |-> c.ops \o s.ops]
       ELSE [config_exists |-> c.exists, config_content |-> left, service_exists |-> s.exists, unit_stale |-> FALSE, result |-> PyBool(success), calls |-> c.ops \o s.ops \o <<SystemdOp("daemon_reload")>>]

----------------------------------------------------------------------------
(* The service manager (systemd), by what the calls need of it *)

service_start == \E up \in BOOLEAN : running' = up /\ failed' = ~up /\ UNCHANGED enabled
service_restart == \E up \in BOOLEAN : running' = up /\ failed' = ~up /\ UNCHANGED enabled
service_stop == running' = FALSE /\ UNCHANGED <<enabled, failed>>
service_enable == enabled' = TRUE /\ UNCHANGED <<running, failed>>
service_disable == enabled' = FALSE /\ UNCHANGED <<running, failed>>
service_running == running
service_failed == failed

----------------------------------------------------------------------------
(* Calls *)

Return(name, result, ops) == last_call' = name /\ last_result' = result /\ calls' = ops

\* Mutant of not_installed: "and" for "or", one present path is enough.
not_installed_both_absent(cfg, svc) == ~cfg /\ ~svc

\* The condition of check_installed under which func is not run.
not_installed(cfg, svc) == ~cfg \/ ~svc

\* check_installed(exporter_name)(func): with either path absent, log and
\* return False; otherwise run func and return what it returns.
check_installed(name, func) ==
    IF not_installed(config_exists, service_exists)
    THEN Return(name, "False", <<>>) /\ UNCHANGED <<fs, sm, unit_stale, hw_tools>>
    ELSE func /\ UNCHANGED <<fs, unit_stale, hw_tools>>

\* Mutant of health: the "not" is dropped.
health_unnegated(has_failed) == has_failed

\* What check_health returns of systemd.service_failed(name).
health(has_failed) == ~has_failed

\* What check_active returns of systemd.service_running(name).
active(is_running) == is_running

Init ==
    /\ config_exists = FALSE
    /\ config_content = <<>>
    /\ service_exists = FALSE
    /\ unit_stale = FALSE
    /\ hw_tools = HostWhitelist
    /\ running = FALSE
    /\ enabled = FALSE
    /\ failed = FALSE
    /\ last_call = "none"
    /\ last_result = "None"
    /\ calls = <<>>

install ==
    \E oc \in PossibleWrites(config_exists), os \in PossibleWrites(service_exists) :
        /\ PathsAgree(oc, os)
        /\ LET r == install_run(config_exists, config_content, service_exists, unit_stale, hw_tools, oc, os)
           IN /\ config_exists' = r.config_exists
              /\ config_content' = r.config_content
              /\ service_exists' = r.service_exists
              /\ unit_stale' = r.unit_stale
              /\ Return("install", r.result, r.calls)
        /\ UNCHANGED <<sm, hw_tools>>

uninstall ==
    \E rc \in RemoveOutcomes, rs \in RemoveOutcomes :
        /\ LET r == uninstall_run(config_exists, config_content, service_exists, unit_stale, rc, rs)
           IN /\ config_exists' = r.config_exists
              /\ config_content' = r.config_content
              /\ service_exists' = r.service_exists
              /\ unit_stale' = r.unit_stale
              /\ Return("uninstall", r.result, r.calls)
        /\ UNCHANGED <<sm, hw_tools>>

stop == check_installed("stop", service_stop /\ Return("stop", "None", <<SystemdOp("service_stop")>>))

start == check_installed("start", service_start /\ Return("start", "None", <<SystemdOp("service_start")>>))

restart == check_installed("restart", service_restart /\ Return("restart", "None", <<SystemdOp("service_restart")>>))

enable == check_installed("enable", service_enable /\ Return("enable", "None", <<SystemdOp("service_enable")>>))

disable == check_installed("disable", service_disable /\ Return("disable", "None", <<SystemdOp("service_disable")>>))

check_active == check_installed("check_active", Return("check_active", PyBool(active(service_running)), <<SystemdOp("service_running")>>) /\ UNCHANGED sm)

check_health == check_installed("check_health", Return("check_health", PyBool(health(service_failed)), <<SystemdOp("service_failed")>>) /\ UNCHANGED sm)

\* Environment: the running exporter process dies and systemd marks the
\* unit failed.
service_crash ==
    /\ running
    /\ running' = FALSE
    /\ failed' = TRUE
    /\ Return("service_crash", "None", <<>>)
    /\ UNCHANGED <<fs, unit_stale, hw_tools, enabled>>

Next ==
    \/ install
    \/ uninstall
    \/ stop
    \/ start
    \/ restart
    \/ enable
    \/ disable
    \/ check_active
    \/ check_health
    \/ service_crash

Spec == Init /\ [][Next]_vars

----------------------------------------------------------------------------
(* render_config alone, over every whitelist *)

InitRender ==
    /\ config_exists = FALSE
    /\ config_content = <<>>
    /\ service_exists = FALSE
    /\ unit_stale = FALSE
    /\ hw_tools \in Whitelists
    /\ running = FALSE
    /\ enabled = FALSE
    /\ failed = FALSE
    /\ last_call = "none"
    /\ last_result = "None"
    /\ calls = <<>>

\* self.template.render_config(port, level, collect_timeout, redfish_conn_params)
render_config_call ==
    \E oc \in PossibleWrites(config_exists) :
        /\ LET c == render_config(config_exists, config_content, hw_tools, oc)
           IN /\ config_exists' = c.exists
              /\ config_content' = c.content
              /\ Return("render_config", IF c.raised THEN oc ELSE PyBool(c.success), c.ops)
        /\ UNCHANGED <<service_exists, unit_stale, hw_tools, sm>>

NextRender == render_config_call

SpecRender == InitRender /\ [][NextRender]_vars

----------------------------------------------------------------------------
(* Reading the record of the most recent call *)

Gated == {"start", "stop", "restart", "enable", "disable", "check_active", "check_health"}

NoSystemd(ops) == \A i \in DOMAIN ops : ops[i].path # "systemd"

Did(ops, op, path) == \E i \in DOMAIN ops : ops[i].op = op /\ ops[i].path = path

DidWith(ops, op, path, outcomes) == \E i \in DOMAIN ops : ops[i].op = op /\ ops[i].path = path /\ ops[i].outcome \in outcomes

Reloaded(ops) == ops # <<>> /\ ops[Len(ops)] = SystemdOp("daemon_reload")

\* The failures _install and _uninstall report by returning False.
ReportedFailures == {"NotADirectoryError", "PermissionError"}

\* The write failure kinds: directory missing, path component not a
\* directory, permission denied.
WriteFailureKinds == {"FileNotFoundError", "NotADirectoryError", "PermissionError"}

----------------------------------------------------------------------------
(* Claims *)

\* C1: a gated call (start, stop, restart, enable, disable, check_active,
\* check_health) made while the config file or the unit file is absent
\* returns False, performs no systemd operation and changes neither the
\* files nor the service state; the test is on the filesystem as it is at
\* the call.
C1_NotInstalledShortCircuits ==
    [][(last_call' \in Gated /\ (~config_exists \/ ~service_exists))
        => /\ last_result' = "False"
           /\ NoSystemd(calls')
           /\ calls' = <<>>
           /\ UNCHANGED <<fs, sm, unit_stale>>]_vars

\* C1 witness: the service was started under an earlier installation, the
\* unit file is gone since, and start is refused.
C1_Witness ==
    /\ last_call = "start"
    /\ last_result = "False"
    /\ running
    /\ config_exists
    /\ ~service_exists

\* C2: in install(), a failed config write aborts the rest (the unit file is
\* not written, systemd is not reloaded, install returns False), and a
\* failed unit write ends install with False and no reload.
C2_InstallAbortsOnFailedStep ==
    last_call = "install" =>
        /\ DidWith(calls, "write", "config", ReportedFailures)
            => ~Did(calls, "write", "service") /\ NoSystemd(calls) /\ last_result = "False"
        /\ DidWith(calls, "write", "service", ReportedFailures)
            => NoSystemd(calls) /\ last_result = "False"

\* C3: whenever install() returns True, both the config file and the unit
\* file exist.
C3_InstallTrueMeansInstalled ==
    (last_call = "install" /\ last_result = "True") => (config_exists /\ service_exists)

\* C4: whenever uninstall() returns True, neither the config file nor the
\* unit file exists.
C4_UninstallTrueMeansAbsent ==
    (last_call = "uninstall" /\ last_result = "True") => (~config_exists /\ ~service_exists)

\* C5: uninstall() called with both files absent returns True, unlinks
\* nothing and leaves the filesystem as it was; and uninstall() returns
\* False only when an unlink of an existing file ended in PermissionError.
C5_UninstallIdempotent ==
    [][last_call' = "uninstall"
        => /\ (~config_exists /\ ~service_exists)
                => /\ last_result' = "True"
                   /\ ~Did(calls', "unlink", "config")
                   /\ ~Did(calls', "unlink", "service")
                   /\ UNCHANGED fs
           /\ last_result' \in {"True", "False"}
           /\ last_result' = "False"
                => \/ config_exists /\ DidWith(calls', "unlink", "config", {"PermissionError"})
                   \/ service_exists /\ DidWith(calls', "unlink", "service", {"PermissionError"})]_vars

\* C5 witness: uninstall returned True having unlinked nothing.
C5_Witness ==
    /\ last_call = "uninstall"
    /\ last_result = "True"
    /\ calls = <<SystemdOp("daemon_reload")>>
    /\ ~config_exists
    /\ ~service_exists

\* C6: install() ends with a boolean, never with an exception, whatever the
\* failure kind of its writes (directory missing, path component not a
\* directory, permission denied).
C6_InstallNeverRaises ==
    (last_call = "install" /\ \A i \in DOMAIN calls : calls[i].op = "write" => calls[i].outcome \in WriteFailureKinds \cup {"ok"})
        => last_result \in {"True", "False"}

\* C7: with both files present, check_health() returns the negation of what
\* systemd reports as the unit's failed state, asks systemd nothing else,
\* and changes neither the files nor the running/enabled/failed state.
C7_HealthIsNotFailed ==
    [][(last_call' = "check_health" /\ config_exists /\ service_exists)
        => /\ last_result' = PyBool(~failed)
           /\ calls' = <<SystemdOp("service_failed")>>
           /\ UNCHANGED <<fs, sm>>]_vars

\* C7 witness: check_health on an installed exporter whose unit has failed.
C7_Witness ==
    /\ last_call = "check_health"
    /\ config_exists
    /\ service_exists
    /\ failed
    /\ last_result = "False"

\* The whitelist's mapped tools, in whitelist order.
MappedTools(tools) == SelectSeq(tools, LAMBDA t : t \in HWTool)

\* C8: the rendered collector list is, position by position, the collector
\* of the whitelist's mapped tools in whitelist order, duplicates kept; a
\* singleton whitelist of a mapped tool renders exactly that tool's
\* collectors and an unmapped tool contributes nothing.
C8_CollectorsFollowWhitelist ==
    config_exists =>
        /\ \A t \in HWTool : Len(HARDWARE_EXPORTER_COLLECTOR_MAPPING[t]) = 1
        /\ Len(config_content) = Len(MappedTools(hw_tools))
        /\ \A i \in 1..Len(config_content) : config_content[i] = HARDWARE_EXPORTER_COLLECTOR_MAPPING[MappedTools(hw_tools)[i]][1]
        /\ \A t \in HWTool : hw_tools = <<t>> => config_content = HARDWARE_EXPORTER_COLLECTOR_MAPPING[t]
        /\ hw_tools = <<UnmappedTool>> => config_content = <<>>

\* C8 witness: a whitelist with an unmapped tool between two mapped ones.
C8_Witness ==
    /\ config_exists
    /\ hw_tools = <<"redfish", UnmappedTool, "storcli">>
    /\ config_content = <<"collector.redfish", "collector.mega_raid">>
    /\ last_result = "True"

\* C9: whenever systemd's start or restart is invoked, the unit file has not
\* been written or deleted since the last daemon_reload; every install() or
\* uninstall() that wrote or deleted the unit file ends with the reload.
C9_ReloadBeforeStart ==
    /\ (last_call \in {"start", "restart"} /\ ~NoSystemd(calls)) => ~unit_stale
    /\ (last_call = "install" /\ DidWith(calls, "write", "service", {"ok"})) => Reloaded(calls) /\ ~unit_stale
    /\ (last_call = "uninstall" /\ DidWith(calls, "unlink", "service", {"ok"})) => Reloaded(calls) /\ ~unit_stale

\* C9 witness: restart reached systemd on an installed exporter.
C9_Witness ==
    /\ last_call = "restart"
    /\ calls = <<SystemdOp("service_restart")>>
    /\ config_exists
    /\ service_exists
    /\ ~unit_stale

\* C10: uninstall() never invokes systemd's stop and leaves the running
\* state as it was; from Installed with the service running, an uninstall()
\* that returns True leaves both files absent and the service running; and
\* while a file is absent stop() returns False without reaching systemd.
C10_UninstallOrphansService ==
    [][/\ last_call' = "uninstall"
            => /\ ~Did(calls', "service_stop", "systemd")
               /\ running' = running
               /\ (config_exists /\ service_exists /\ running /\ last_result' = "True")
                    => (~config_exists' /\ ~service_exists' /\ running')
       /\ (last_call' = "stop" /\ (~config_exists \/ ~service_exists))
            => (last_result' = "False" /\ NoSystemd(calls') /\ running' = running)]_vars

\* The part of C10 that does not rest on what uninstall() returns.
C10_UninstallLeavesServiceAlone ==
    [][/\ last_call' = "uninstall"
            => /\ ~Did(calls', "service_stop", "systemd")
               /\ UNCHANGED sm
               /\ (config_exists /\ service_exists /\ running /\ ~config_exists' /\ ~service_exists') => running'
       /\ (last_call' = "stop" /\ (~config_exists \/ ~service_exists))
            => (last_result' = "False" /\ NoSystemd(calls') /\ running' = running)]_vars

====
